---------------------------- MODULE Spec2Model ----------------------------
(***************************************************************************)
(* flake2date: a run of checkUp2Date_v3.py.  One run loads a flake.lock,   *)
(* resolves a GitHub token, and hands lock nodes to check_input, which     *)
(* asks GitHub for the latest commit instant of the tracked branch and     *)
(* compares it with the locked lastModified.                               *)
(*                                                                         *)
(* Python values are modelled as follows.  A str is a sequence of          *)
(* one-character strings, except for the closed vocabularies (node names,  *)
(* owner, repo, branch names), which are TLA+ strings.  An optional value  *)
(* (None or a value) is a record [some, val].  A dict is a sequence of     *)
(* <<key, value>> pairs in insertion order.                                *)
(***************************************************************************)
EXTENDS Integers, Sequences, FiniteSets, TLC

VARIABLES
    lock,          \* lock_data: the loaded flake.lock
    pc,            \* position of main()
    args,          \* parsed command line: check_all, only_outdated, flake_input
    environ,       \* the token sources: GITHUB_TOKEN and the run of `gh auth token`
    token,         \* the resolved token (optional str)
    tip,           \* TRUE when the rate-limit tip was printed
    no_inputs,     \* TRUE when "No inputs found to check." was printed
    target_nodes,  \* the (name, node_key) pairs the batch loop iterates
    idx,           \* position of the batch loop in target_nodes
    handed,        \* history: the calls of check_input, <<name, node name>>
    out,           \* the results printed by check_input, in order
    outFull,       \* history: what the same calls print with only_outdated=False
    requests       \* history: the HTTP requests issued, with their responses

vars == <<lock, environ, pc, args, token, tip, no_inputs, target_nodes, idx, handed, out, outFull, requests>>

-----------------------------------------------------------------------------
(* Bounds *)

\* the upstream committer dates are the seconds 0..MaxSecond of the epoch's
\* first minute; the locked lastModified are the two ends of that range
MaxSecond == 2

-----------------------------------------------------------------------------
(* Python values *)

None == [some |-> FALSE, val |-> <<>>]
Some(v) == [some |-> TRUE, val |-> v]

\* bool(x) of an optional str: None and "" are falsy
Truthy(x) == x.some /\ x.val # <<>>

\* x or y
Or(x, y) == IF Truthy(x) THEN x ELSE y

Whitespace == {" ", "\n", "\t"}

RECURSIVE LStrip(_)
LStrip(s) == IF s # <<>> /\ Head(s) \in Whitespace THEN LStrip(Tail(s)) ELSE s

RECURSIVE RStrip(_)
RStrip(s) ==
    IF s # <<>> /\ s[Len(s)] \in Whitespace THEN RStrip(SubSeq(s, 1, Len(s) - 1)) ELSE s

\* str.strip()
Strip(s) == RStrip(LStrip(s))

\* dict lookup on a sequence of <<key, value>> pairs
HasKey(d, k) == \E i \in 1..Len(d) : d[i][1] = k
Lookup(d, k) == d[CHOOSE i \in 1..Len(d) : d[i][1] = k][2]


\* str(x) inside an f-string: None is formatted as the text None
Format(x) == IF x.some THEN x.val ELSE <<"N", "o", "n", "e">>

-----------------------------------------------------------------------------
(* The upstream committer date: datetime.strptime(date_str,               *)
(* "%Y-%m-%dT%H:%M:%SZ").replace(tzinfo=utc).timestamp()                   *)

Digits == <<"0", "1", "2", "3", "4", "5", "6", "7", "8", "9">>
IsDigit(c) == \E i \in 1..10 : Digits[i] = c
DigitVal(c) == (CHOOSE i \in 1..10 : Digits[i] = c) - 1

\* the number written by the digits s[from..to]
RECURSIVE Number(_, _, _)
Number(s, from, to) ==
    IF to < from THEN 0 ELSE 10 * Number(s, from, to - 1) + DigitVal(s[to])

IsLeap(y) == (y % 4 = 0 /\ y % 100 # 0) \/ y % 400 = 0
DaysInMonth(y, m) ==
    IF m = 2 THEN (IF IsLeap(y) THEN 29 ELSE 28)
    ELSE IF m \in {4, 6, 9, 11} THEN 30 ELSE 31

\* days from 1970-01-01 to the civil date y-m-d (proleptic Gregorian)
DaysFromCivil(y, m, d) ==
    LET yy  == IF m <= 2 THEN y - 1 ELSE y
        era == yy \div 400
        yoe == yy - era * 400
        mp  == IF m > 2 THEN m - 3 ELSE m + 9
        doy == (153 * mp + 2) \div 5 + d - 1
        doe == yoe * 365 + yoe \div 4 - yoe \div 100 + doy
    IN  era * 146097 + doe - 719468

\* On date strings whose fields are written with their full width (the only
\* ones drawn here), the format matches exactly the 20-character strings
\* dddd-dd-ddTdd:dd:ddZ; a matched string with a field out of range raises
\* ValueError as well.  The result is [ok, ts]: ok = FALSE is the ValueError.
Strptime(s) ==
    LET shaped == /\ Len(s) = 20
                  /\ s[5] = "-" /\ s[8] = "-" /\ s[11] = "T"
                  /\ s[14] = ":" /\ s[17] = ":" /\ s[20] = "Z"
                  /\ \A i \in {1, 2, 3, 4, 6, 7, 9, 10, 12, 13, 15, 16, 18, 19} :
                        IsDigit(s[i])
        y  == Number(s, 1, 4)
        mo == Number(s, 6, 7)
        d  == Number(s, 9, 10)
        h  == Number(s, 12, 13)
        mi == Number(s, 15, 16)
        se == Number(s, 18, 19)
        inRange == /\ y >= 1 /\ mo \in 1..12 /\ d >= 1 /\ d <= DaysInMonth(y, mo)
                   /\ h <= 23 /\ mi <= 59 /\ se <= 59
    IN  IF shaped /\ inRange
        THEN [ok |-> TRUE,
              ts |-> DaysFromCivil(y, mo, d) * 86400 + h * 3600 + mi * 60 + se]
        ELSE [ok |-> FALSE, ts |-> 0]

\* "1970-01-01T00:00:SS"
EpochSecond(sec) ==
    <<"1", "9", "7", "0", "-", "0", "1", "-", "0", "1", "T", "0", "0", ":", "0", "0", ":">>
    \o <<Digits[(sec \div 10) + 1], Digits[(sec % 10) + 1]>>

\* "1970-01-01T00:00:SSZ", as GitHub writes a committer date
EpochDate(sec) == EpochSecond(sec) \o <<"Z">>

\* the same instant written with a numeric UTC offset instead of the Z
OffsetDate == EpochSecond(1) \o <<"+", "0", "0", ":", "0", "0">>

-----------------------------------------------------------------------------
(* The environment of a run: the lock file, the command line, the token    *)
(* sources and GitHub's responses.                                         *)

LockedKeys == {"type", "lastModified", "owner", "repo"}

Dev == <<"d", "e", "v">>
Main == <<"m", "a", "i", "n">>

\* node["original"]["ref"]: absent, empty or a branch name
Refs == {None, Some(<<>>), Some(Dev)}

\* a node of the lock file; keys is the set of keys present under "locked"
\* (a field whose key is absent holds a filler that is never read)
NodeOf(keys, type, lm, ref, inputs) ==
    [keys |-> keys, type |-> type, lastModified |-> lm,
     owner |-> "o", repo |-> "r", ref |-> ref, inputs |-> inputs]

LocalInstants == {0, MaxSecond}

GithubNodes == {NodeOf(LockedKeys, "github", lm, ref, None) :
                    lm \in LocalInstants, ref \in Refs}
TarballNode == NodeOf(LockedKeys, "tarball", 0, None, None)
\* github nodes with a required key missing
MalformedNodes ==
    {NodeOf(LockedKeys \ {k}, "github", 0, None, None) : k \in {"lastModified", "owner"}}

\* the shapes of a dependency node
DepNodes == GithubNodes \cup {TarballNode} \cup MalformedNodes

\* a value of the root's inputs mapping: a node key (str) or a follows path (list)
Key(k) == [isStr |-> TRUE, key |-> k]
FollowsPath == [isStr |-> FALSE, key |-> "a"]

\* the root node's "inputs": absent, empty, or a mapping
RootInputs ==
    { None,
      Some(<<>>),
      Some(<< <<"a", Key("a")>>, <<"b", Key("b")>> >>),
      Some(<< <<"x", Key("b")>>, <<"a", FollowsPath>>, <<"b", Key("gone")>> >>) }

\* the root node has no "locked" section in a lock file nix writes; a
\* hand-written one may carry any
RootNodes ==
    {NodeOf({}, "", 0, None, inputs) : inputs \in RootInputs}
    \cup {NodeOf(LockedKeys, "github", 0, Some(Dev), None)}

LocksOver(nodes) ==
    {[root |-> "root", nodes |-> << <<"a", a>>, <<"root", r>>, <<"b", b>> >>] :
        a \in nodes, b \in nodes, r \in RootNodes}

\* a lock file without nodes
EmptyLock == [root |-> "root", nodes |-> <<>>]

Locks == LocksOver(DepNodes) \cup {EmptyLock}

\* the command line: a named input, -a, or -A
Args ==
    {[check_all |-> FALSE, only_outdated |-> FALSE, flake_input |-> n] :
        n \in {"a", "gone"}}
    \cup {[check_all |-> TRUE, only_outdated |-> o, flake_input |-> ""] : o \in BOOLEAN}

\* os.environ.get("GITHUB_TOKEN")
EnvTokens == {None, Some(<<>>), Some(<<"e">>)}

\* `gh auth token`: not installed, non-zero exit, or exit 0 with a stdout
GhRuns ==
    {[status |-> "FileNotFoundError", stdout |-> <<>>],
     [status |-> "CalledProcessError", stdout |-> <<>>],
     [status |-> "ok", stdout |-> <<" ", "\n">>],
     [status |-> "ok", stdout |-> <<"g", "\n">>]}

Environs == [GITHUB_TOKEN : EnvTokens, gh : GhRuns]

\* an environment with a token and one without
SomeEnvirons ==
    {e \in Environs :
        /\ e.gh.status = "FileNotFoundError"
        /\ e.GITHUB_TOKEN \in {None, Some(<<"e">>)}}

\* GET /repos/{owner}/{repo}: a RequestException (transport failure or
\* raise_for_status), or a JSON body with or without default_branch
MetaResponses ==
    {[status |-> "RequestException", default_branch |-> None],
     [status |-> "ok", default_branch |-> None],
     [status |-> "ok", default_branch |-> Some(Main)]}

\* GET /repos/{owner}/{repo}/branches/{branch}: a RequestException, or a JSON
\* body with or without commit.commit.committer.date
BranchResponses ==
    {[status |-> "RequestException", date |-> None],
     [status |-> "ok", date |-> None],
     [status |-> "ok", date |-> Some(OffsetDate)]}
    \cup {[status |-> "ok", date |-> Some(EpochDate(s))] : s \in 0..MaxSecond}

-----------------------------------------------------------------------------
(* get_token_from_gh_cli and the token of main()                           *)

get_token_from_gh_cli(gh) ==
    IF gh.status = "ok" THEN Some(Strip(gh.stdout)) ELSE None

\* token = os.environ.get("GITHUB_TOKEN") or get_token_from_gh_cli()
ResolveToken(env, gh) == Or(env, get_token_from_gh_cli(gh))

-----------------------------------------------------------------------------
(* get_upstream_info                                                       *)

\* an optional instant (int seconds since the epoch)
NoInstant == [some |-> FALSE, val |-> 0]
Instant(t) == [some |-> TRUE, val |-> t]

\* the guard written as `if token is not None`
Headers_NotNone(tok) ==
    IF tok.some THEN Some(<<"t", "o", "k", "e", "n", " ">> \o Format(tok)) ELSE None

\* headers = {}; if token: headers["Authorization"] = f"token {token}"
\* (the value of the Authorization header, None when the header is not set)
Headers(tok) ==
    IF Truthy(tok) THEN Some(<<"t", "o", "k", "e", "n", " ">> \o Format(tok)) ELSE None

\* the default branch asked for whatever the hint
NeedsDefaultBranch_Always(branch) == TRUE

\* if not branch: the default branch has to be asked for
NeedsDefaultBranch(branch) == ~Truthy(branch)

\* a failed request answered with the epoch instead of None
OnRequestException_Epoch == [some |-> TRUE, val |-> 0]

\* what get_upstream_info returns from an except requests.RequestException
OnRequestException == NoInstant

\* One HTTP request as logged in the history: the URL's parts, the
\* Authorization header, and the response it got.
Request(kind, owner, repo, branch, headers, status, body) ==
    [kind |-> kind, owner |-> owner, repo |-> repo, branch |-> branch,
     auth |-> headers, status |-> status, body |-> body]

\* mr, br: the responses GitHub gives to the repository and to the branch
\* request, should they be issued.  Result: exc is the exception that leaves
\* the function ("none": it returned), ts the timestamp returned, reqs the
\* requests issued.
get_upstream_info(owner, repo, branch_hint, tok, mr, br) ==
    LET headers   == Headers(tok)
        discover  == NeedsDefaultBranch(branch_hint)
        repoReq   == Request("repo", owner, repo, <<>>, headers,
                             mr.status, mr.default_branch)
        branch    == IF discover THEN mr.default_branch ELSE branch_hint
        branchReq == Request("branch", owner, repo, Format(branch), headers,
                             br.status, br.date)
        first     == IF discover THEN <<repoReq>> ELSE <<>>
        parsed    == Strptime(br.date.val)
    IN  IF discover /\ mr.status = "RequestException"
        THEN [exc |-> "none", ts |-> OnRequestException, reqs |-> first]
        ELSE IF br.status = "RequestException"
        THEN [exc |-> "none", ts |-> OnRequestException, reqs |-> first \o <<branchReq>>]
        ELSE IF ~br.date.some
        THEN [exc |-> "KeyError", ts |-> NoInstant, reqs |-> first \o <<branchReq>>]
        ELSE IF ~parsed.ok
        THEN [exc |-> "ValueError", ts |-> NoInstant, reqs |-> first \o <<branchReq>>]
        ELSE [exc |-> "none", ts |-> Instant(parsed.ts), reqs |-> first \o <<branchReq>>]

-----------------------------------------------------------------------------
(* check_input                                                             *)

Result(name, owner, repo, outcome, local, upstream, lag) ==
    [name |-> name, owner |-> owner, repo |-> repo, outcome |-> outcome,
     local |-> local, upstream |-> upstream, lag |-> lag]

\* the type test left out
Supported_Any(node_data) == TRUE

\* if node_data["locked"]["type"] != "github": return
Supported(node_data) == node_data.type = "github"

\* the KeyError reported like a failed fetch
OnKeyError_Report(name, node_data, only_outdated) ==
    IF ~only_outdated
    THEN <<Result(name, "", "", "Unresolvable", NoInstant, NoInstant, 0)>>
    ELSE <<>>

\* except KeyError: return
OnKeyError(name, node_data, only_outdated) == <<>>

\* "Could not fetch upstream info."
CouldNotFetch(name, owner, repo, only_outdated) ==
    IF ~only_outdated
    THEN <<Result(name, owner, repo, "Unresolvable", NoInstant, NoInstant, 0)>>
    ELSE <<>>

\* equal instants taken for outdated
IsOutdated_OrEqual(downstream_ts, upstream_ts) == downstream_ts <= upstream_ts

\* is_outdated = downstream_ts < upstream_ts
IsOutdated(downstream_ts, upstream_ts) == downstream_ts < upstream_ts

\* the filter inverted
Suppressed_Inverted(only_outdated, is_outdated) == only_outdated /\ is_outdated

\* if only_outdated and not is_outdated: return
Suppressed(only_outdated, is_outdated) == only_outdated /\ ~is_outdated

\* the if / elif / else that prints the verdict: <<outcome, lag in seconds>>
Verdict(downstream_ts, upstream_ts) ==
    IF IsOutdated(downstream_ts, upstream_ts)
    THEN <<"Stale", upstream_ts - downstream_ts>>
    ELSE IF downstream_ts > upstream_ts
    THEN <<"LocalAhead", downstream_ts - upstream_ts>>
    ELSE <<"Fresh", 0>>

\* Result: exc is the exception that leaves the function ("none": it
\* returned), prints the results printed, reqs the requests issued.
check_input(name, node_data, tok, only_outdated, mr, br) ==
    LET silent == [exc |-> "none", prints |-> <<>>, reqs |-> <<>>]
        up == get_upstream_info(node_data.owner, node_data.repo, node_data.ref,
                                tok, mr, br)
        v  == Verdict(node_data.lastModified, up.ts.val)
    IN  IF "type" \notin node_data.keys
        THEN [silent EXCEPT !.prints = OnKeyError(name, node_data, only_outdated)]
        ELSE IF ~Supported(node_data)
        THEN silent
        ELSE IF ~({"lastModified", "owner", "repo"} \subseteq node_data.keys)
        THEN [silent EXCEPT !.prints = OnKeyError(name, node_data, only_outdated)]
        ELSE IF up.exc # "none"
        THEN [exc |-> up.exc, prints |-> <<>>, reqs |-> up.reqs]
        ELSE IF ~up.ts.some
        THEN [exc |-> "none", reqs |-> up.reqs,
              prints |-> CouldNotFetch(name, node_data.owner, node_data.repo,
                                       only_outdated)]
        ELSE IF Suppressed(only_outdated,
                           IsOutdated(node_data.lastModified, up.ts.val))
        THEN [exc |-> "none", prints |-> <<>>, reqs |-> up.reqs]
        ELSE [exc |-> "none", reqs |-> up.reqs,
              prints |-> <<Result(name, node_data.owner, node_data.repo, v[1],
                                  Instant(node_data.lastModified), up.ts, v[2])>>]

-----------------------------------------------------------------------------
(* main                                                                    *)

\* root_inputs = lock_data.get("nodes", {}).get(root_node_name, {}).get("inputs", {})
root_inputs(lock_data) ==
    IF HasKey(lock_data.nodes, lock_data.root)
       /\ Lookup(lock_data.nodes, lock_data.root).inputs.some
    THEN Lookup(lock_data.nodes, lock_data.root).inputs.val
    ELSE <<>>

\* lock_data["nodes"].items(): the values are the node dicts, which are no str
NodeItems(lock_data) ==
    [i \in 1..Len(lock_data.nodes) |->
        <<lock_data.nodes[i][1], [isStr |-> FALSE, key |-> lock_data.nodes[i][1]]>>]

\* target_nodes = root_inputs.items() if root_inputs else lock_data["nodes"].items()
TargetNodes(lock_data) ==
    IF root_inputs(lock_data) # <<>> THEN root_inputs(lock_data) ELSE NodeItems(lock_data)

\* actual_node_name = node_key if isinstance(node_key, str) else name
ActualNodeName(name, node_key) == IF node_key.isStr THEN node_key.key ELSE name

\* the entries a call of check_input adds to a history, each with the
\* number of the call
Tagged(call, recs) == [i \in 1..Len(recs) |-> [call |-> call, r |-> recs[i]]]

Start ==
    /\ pc = "start"
    /\ args = [check_all |-> FALSE, only_outdated |-> FALSE, flake_input |-> ""]
    /\ token = None
    /\ tip = FALSE
    /\ no_inputs = FALSE
    /\ target_nodes = <<>>
    /\ idx = 1
    /\ handed = <<>>
    /\ out = <<>>
    /\ outFull = <<>>
    /\ requests = <<>>

Init ==
    /\ lock \in Locks
    /\ environ \in SomeEnvirons
    /\ Start

\* parse_args, the token and the tip
Setup ==
    /\ pc = "start"
    /\ \E a \in Args :
        /\ args' = a
        /\ token' = ResolveToken(environ.GITHUB_TOKEN, environ.gh)
        /\ tip' = (~Truthy(token') /\ a.check_all /\ ~a.only_outdated)
        /\ pc' = IF a.check_all THEN "targets" ELSE "single"
    /\ UNCHANGED <<lock, environ, no_inputs, target_nodes, idx, handed, out, outFull, requests>>

\* if check_all: the choice of target_nodes
SelectTargets ==
    /\ pc = "targets"
    /\ target_nodes' = TargetNodes(lock)
    /\ no_inputs' = (TargetNodes(lock) = <<>> /\ ~args.only_outdated)
    /\ idx' = 1
    /\ pc' = "loop"
    /\ UNCHANGED <<lock, environ, args, token, tip, handed, out, outFull, requests>>

\* a call check_input(name, node_data, token, only_outdated) by main, after
\* which main is at `next` unless an exception left check_input
Call(name, actual, only_outdated, next) ==
    \E mr \in MetaResponses, br \in BranchResponses :
        LET node_data == Lookup(lock.nodes, actual)
            call == Len(handed) + 1
            res  == check_input(name, node_data, token, only_outdated, mr, br)
            full == check_input(name, node_data, token, FALSE, mr, br)
        IN  /\ handed' = Append(handed, [name |-> name, node |-> actual])
            /\ out' = out \o Tagged(call, res.prints)
            /\ outFull' = outFull \o Tagged(call, full.prints)
            /\ requests' = requests \o Tagged(call, res.reqs)
            /\ pc' = IF res.exc = "none" THEN next ELSE "traceback"

\* one iteration of: for name, node_key in target_nodes
LoopStep ==
    /\ pc = "loop"
    /\ idx <= Len(target_nodes)
    /\ LET name == target_nodes[idx][1]
           actual == ActualNodeName(name, target_nodes[idx][2])
       IN  IF HasKey(lock.nodes, actual)
           THEN Call(name, actual, args.only_outdated, "loop")
           ELSE UNCHANGED <<pc, handed, out, outFull, requests>>
    /\ idx' = idx + 1
    /\ UNCHANGED <<lock, environ, args, token, tip, no_inputs, target_nodes>>

\* the loop is exhausted and main returns
LoopEnd ==
    /\ pc = "loop"
    /\ idx > Len(target_nodes)
    /\ pc' = "done"
    /\ UNCHANGED <<lock, environ, args, token, tip, no_inputs, target_nodes, idx, handed, out, outFull, requests>>

\* else: the single named input
Single ==
    /\ pc = "single"
    /\ IF ~HasKey(lock.nodes, args.flake_input)
       THEN /\ pc' = "exit1"
            /\ UNCHANGED <<handed, out, outFull, requests>>
       ELSE Call(args.flake_input, args.flake_input, FALSE, "done")
    /\ UNCHANGED <<lock, environ, args, token, tip, no_inputs, target_nodes, idx>>

Next == Setup \/ SelectTargets \/ LoopStep \/ LoopEnd \/ Single

Spec == Init /\ [][Next]_vars

\* Runs over every combination of the token sources, on lock files whose
\* dependencies are well-formed github nodes, with and without branch hint.
InitToken ==
    /\ lock \in LocksOver({n \in GithubNodes : n.lastModified = 0 /\ n.ref # Some(<<>>)})
    /\ environ \in Environs
    /\ Start

SpecToken == InitToken /\ [][Next]_vars

-----------------------------------------------------------------------------
(* Properties                                                              *)

Calls == 1..Len(handed)

\* the node check_input was handed in call c
NodeOfCall(c) == Lookup(lock.nodes, handed[c].node)

\* the entries of a history that call c added
OfCall(hist, c) == SelectSeq(hist, LAMBDA e : e.call = c)

IsStale(e) == e.r.outcome = "Stale"
Compared == {"Stale", "Fresh", "LocalAhead"}

WellFormedGithub(n) == LockedKeys \subseteq n.keys /\ n.type = "github"

\* C1: the results of a stale-only run are exactly the Stale results of the
\* unfiltered run over the same nodes and the same upstream responses, in
\* the same order; nothing that is not Stale is reported.
C1_FilterCorrectness ==
    args.only_outdated =>
        /\ out = SelectSeq(outFull, IsStale)
        /\ \A i \in 1..Len(out) : out[i].r.outcome = "Stale"

\* a finished stale-only run that reported a node and suppressed another
C1_Witness ==
    /\ pc = "done" /\ args.only_outdated
    /\ out # <<>>
    /\ \E i \in 1..Len(outFull) : outFull[i].r.outcome # "Stale"

\* C3: a node with a non-empty branch hint gets exactly one request, the
\* branch request for the hint itself, and never a repository (default
\* branch) request; a repository request is issued only for a node whose
\* hint is absent or empty.
C3_HintPrecedence ==
    /\ \A c \in Calls :
          LET n == NodeOfCall(c) IN
          (WellFormedGithub(n) /\ Truthy(n.ref)) =>
              /\ Len(OfCall(requests, c)) = 1
              /\ OfCall(requests, c)[1].r.kind = "branch"
              /\ OfCall(requests, c)[1].r.branch = n.ref.val
    /\ \A i \in 1..Len(requests) :
          requests[i].r.kind = "repo" => ~Truthy(NodeOfCall(requests[i].call).ref)

\* a hinted node and an unhinted node were both fetched
C3_Witness ==
    /\ \E c \in Calls :
          /\ WellFormedGithub(NodeOfCall(c)) /\ Truthy(NodeOfCall(c).ref)
          /\ OfCall(requests, c) # <<>>
    /\ \E i \in 1..Len(requests) : requests[i].r.kind = "repo"

\* the upstream instant of call c: the parsed date of its branch response
UpstreamOfCall(c) ==
    LET rs == SelectSeq(OfCall(requests, c), LAMBDA e : e.r.kind = "branch")
    IN  Strptime(rs[1].r.body.val).ts

\* C4: a compared node is Stale with lag upstream - local when local <
\* upstream, LocalAhead with lag local - upstream when local > upstream, and
\* Fresh with lag 0 exactly when the two are equal; two results with swapped
\* instants have swapped outcomes and the same lag.
C4_Comparison ==
    /\ \A i \in 1..Len(out) :
          LET e == out[i].r
              l == NodeOfCall(out[i].call).lastModified
              u == UpstreamOfCall(out[i].call)
          IN  e.outcome \in Compared =>
                /\ e.local = Instant(l) /\ e.upstream = Instant(u)
                /\ l < u => e.outcome = "Stale" /\ e.lag = u - l
                /\ l > u => e.outcome = "LocalAhead" /\ e.lag = l - u
                /\ l = u => e.outcome = "Fresh" /\ e.lag = 0
    /\ \A i, j \in 1..Len(out) :
          LET e == out[i].r
              f == out[j].r
          IN  (e.outcome \in Compared /\ f.outcome \in Compared
               /\ e.local = f.upstream /\ e.upstream = f.local) =>
                /\ e.lag = f.lag
                /\ e.outcome = "Stale" <=> f.outcome = "LocalAhead"
                /\ e.outcome = "Fresh" <=> f.outcome = "Fresh"

\* one run reported a Stale node and a LocalAhead node with swapped instants
C4_Witness ==
    \E i, j \in 1..Len(out) :
        /\ out[i].r.outcome = "Stale" /\ out[j].r.outcome = "LocalAhead"
        /\ out[i].r.local = out[j].r.upstream /\ out[i].r.upstream = out[j].r.local

\* a run reported a node whose two instants are equal
C4_WitnessFresh ==
    \E i \in 1..Len(out) : out[i].r.outcome = "Fresh"

Unsupported(n) == "type" \in n.keys /\ n.type # "github"

\* C5: a node whose locked.type is not "github" produces no result (in the
\* filtered and in the unfiltered output), no request and no exception, in
\* every mode.
C5_UnsupportedSkipped ==
    \A c \in Calls :
        Unsupported(NodeOfCall(c)) =>
            /\ OfCall(out, c) = <<>>
            /\ OfCall(outFull, c) = <<>>
            /\ OfCall(requests, c) = <<>>
            /\ c = Len(handed) => pc # "traceback"

\* a batch run skipped an unsupported node and reported the node after it
C5_Witness ==
    \E c \in Calls :
        /\ Unsupported(NodeOfCall(c))
        /\ OfCall(out, c + 1) # <<>>

\* a single-input run on an unsupported node finished
C5_WitnessSingle ==
    /\ ~args.check_all /\ pc = "done"
    /\ Unsupported(NodeOfCall(1))

HasRequestException(c) ==
    \E i \in 1..Len(requests) :
        requests[i].call = c /\ requests[i].r.status = "RequestException"

IsUnresolvable(e) ==
    e.r.outcome = "Unresolvable" /\ e.r.local = NoInstant /\ e.r.upstream = NoInstant

\* C6: a node is reported Stale, Fresh or LocalAhead only with its locked
\* lastModified and with an upstream instant parsed from the committer date
\* of a successful branch response; a node one of whose requests failed is
\* reported Unresolvable or not at all.
C6_TwoInstants ==
    /\ \A i \in 1..Len(out) :
          LET e == out[i].r
              c == out[i].call
              n == NodeOfCall(c)
          IN  e.outcome \in Compared =>
                /\ "lastModified" \in n.keys
                /\ e.local = Instant(n.lastModified)
                /\ ~HasRequestException(c)
                /\ \E k \in 1..Len(requests) :
                      LET q == requests[k].r IN
                      /\ requests[k].call = c /\ q.kind = "branch"
                      /\ q.status = "ok" /\ q.body.some
                      /\ Strptime(q.body.val).ok
                      /\ e.upstream = Instant(Strptime(q.body.val).ts)
    /\ \A c \in Calls :
          HasRequestException(c) =>
              /\ \A i \in 1..Len(out) : out[i].call = c => IsUnresolvable(out[i])
              /\ Len(OfCall(out, c)) <= 1

\* one run reported a node whose request failed and compared another
C6_Witness ==
    /\ \E c \in Calls : HasRequestException(c) /\ OfCall(out, c) # <<>>
    /\ \E i \in 1..Len(out) : out[i].r.outcome \in Compared

TokenPrefix == <<"t", "o", "k", "e", "n", " ">>

\* the Authorization header every request of the run has to carry, given
\* the token sources: the environment's token when it is non-empty, else the
\* helper's output when it is more than whitespace, else none
AuthorizationDue ==
    IF environ.GITHUB_TOKEN.some /\ environ.GITHUB_TOKEN.val # <<>>
    THEN Some(TokenPrefix \o environ.GITHUB_TOKEN.val)
    ELSE IF environ.gh.status = "ok" /\ environ.gh.stdout = <<"g", "\n">>
    THEN Some(TokenPrefix \o <<"g">>)
    ELSE None

\* C7: no request carries an empty credential: a request has an
\* Authorization header only for a non-empty token, the environment's token
\* wins when it is non-empty, and a helper that prints only whitespace (or is
\* absent, or fails) leaves the run without credential: no header, and the
\* tip about rate limits as for a run without token.
C7_NoEmptyCredential ==
    /\ \A i \in 1..Len(requests) :
          /\ requests[i].r.auth = AuthorizationDue
          /\ requests[i].r.auth.some => requests[i].r.auth.val # TokenPrefix
    /\ pc # "start" =>
          /\ Truthy(environ.GITHUB_TOKEN) => token = environ.GITHUB_TOKEN
          /\ AuthorizationDue.some => token.some /\ token.val # <<>>
          /\ tip = (~AuthorizationDue.some /\ args.check_all /\ ~args.only_outdated)

\* a request was sent in a run whose helper printed only whitespace, with no
\* token in the environment
C7_Witness ==
    /\ requests # <<>>
    /\ ~Truthy(environ.GITHUB_TOKEN)
    /\ environ.gh.status = "ok" /\ Strip(environ.gh.stdout) = <<>>

\* a request was sent with the environment's token although the helper had one
C7_WitnessEnv ==
    /\ requests # <<>>
    /\ Truthy(environ.GITHUB_TOKEN) /\ environ.gh.stdout = <<"g", "\n">>

\* a github node with lastModified, owner or repo missing
Malformed(n) ==
    /\ "type" \in n.keys /\ n.type = "github"
    /\ ~({"lastModified", "owner", "repo"} \subseteq n.keys)

\* C8 as stated: a github node with a required locked field missing is
\* reported Unresolvable, without instants, in unfiltered and single-input
\* output, and no request is issued for it.
C8_MalformedUnresolvable ==
    \A c \in Calls :
        (Malformed(NodeOfCall(c)) /\ ~args.only_outdated) =>
            /\ Len(OfCall(out, c)) = 1
            /\ IsUnresolvable(OfCall(out, c)[1])
            /\ OfCall(requests, c) = <<>>

\* C8 as amended: a github node with a required locked field missing is
\* skipped like a node of an unsupported type: no result in any mode, no
\* request, no exception.
C8_MalformedSkipped ==
    \A c \in Calls :
        Malformed(NodeOfCall(c)) =>
            /\ OfCall(out, c) = <<>>
            /\ OfCall(outFull, c) = <<>>
            /\ OfCall(requests, c) = <<>>
            /\ c = Len(handed) => pc # "traceback"

\* an unfiltered batch run went past a malformed github node
C8_Witness ==
    /\ args.check_all /\ ~args.only_outdated /\ pc = "done"
    /\ \E c \in Calls : Malformed(NodeOfCall(c))

\* a request that ended the node's fetch: an exception on either request,
\* or a branch response without the committer date or with a date that is
\* not in the format
Failed(q) ==
    \/ q.status = "RequestException"
    \/ q.kind = "branch" /\ ~q.body.some
    \/ q.kind = "branch" /\ ~Strptime(q.body.val).ok

\* C2: in a batch run no failure of a node's requests aborts the run: the
\* node is reported Unresolvable (where results are not filtered) and the
\* loop goes on.
C2_FailuresNeverAbort ==
    args.check_all =>
        /\ pc # "traceback"
        /\ \A i \in 1..Len(requests) :
              Failed(requests[i].r) =>
                  \E k \in 1..Len(outFull) :
                      outFull[k].call = requests[i].call /\ IsUnresolvable(outFull[k])

\* C9: after a repository response without default_branch there is no branch
\* request for the node and no second repository request, and the node is
\* Unresolvable.
C9_NoDefaultBranch ==
    \A i \in 1..Len(requests) :
        LET q == requests[i].r
            c == requests[i].call
        IN  (q.kind = "repo" /\ q.status = "ok" /\ ~q.body.some) =>
              /\ \A k \in 1..Len(requests) :
                    requests[k].call = c => k = i
              /\ \A k \in 1..Len(outFull) :
                    outFull[k].call = c => IsUnresolvable(outFull[k])

NodeNames == [i \in 1..Len(lock.nodes) |-> lock.nodes[i][1]]

\* the calls of check_input a batch run has to make: with a non-empty root
\* inputs mapping, one per entry whose node exists, under the entry's name
\* and on the node the entry names; with an absent or empty mapping, one per
\* node other than the root, in the order of the nodes
ExpectedCalls ==
    IF root_inputs(lock) # <<>>
    THEN LET known == SelectSeq(root_inputs(lock),
                                LAMBDA e : HasKey(lock.nodes, ActualNodeName(e[1], e[2])))
         IN  [i \in 1..Len(known) |->
                 [name |-> known[i][1], node |-> ActualNodeName(known[i][1], known[i][2])]]
    ELSE LET others == SelectSeq(NodeNames, LAMBDA n : n # lock.root)
         IN  [i \in 1..Len(others) |-> [name |-> others[i], node |-> others[i]]]

\* C10: the calls of check_input of a batch run are drawn, in order, from the
\* root inputs mapping, or from all nodes but the root when the mapping is
\* absent or empty; a finished run has made exactly these calls.
C10_NodeSet ==
    (args.check_all /\ pc \in {"loop", "done"}) =>
        /\ \A c \in Calls : \E k \in 1..Len(ExpectedCalls) : handed[c] = ExpectedCalls[k]
        /\ pc = "done" => handed = ExpectedCalls

=============================================================================
